---- MODULE Spec2Model ----
(***************************************************************************)
(* Model of src/app.py, the Streamlit heart-disease report application.    *)
(*                                                                         *)
(* The script runs top to bottom on every interaction.  The widgets keep   *)
(* the user's selections (variable form); everything below the             *)
(* "Generate Report" button is produced by the run in which the button was *)
(* pressed and is gone again in the next run.  trace is the sequence of    *)
(* steps the last run took below the button, in statement order.           *)
(*                                                                         *)
(* Python's None is the empty tuple and a set value v is <<v>>, so that    *)
(* None is comparable with, and distinct from, every number.  oldpeak is a *)
(* float with step 0.1 in the source and is counted in tenths here.        *)
(* Texts are the source's without emoji; its "less or equal" sign is       *)
(* written <=, and a resource line is named by its organisation.           *)
(*                                                                         *)
(* The widgets are independent, so three sessions are checked, each from a *)
(* state the page can be in: Spec (fresh page, the six required widgets),  *)
(* SpecRisk (required widgets set, the widgets the detailed analysis       *)
(* reads) and SpecVector (required widgets set, up to MaxEdits changes of  *)
(* the thirteen widgets behind the feature vector).                        *)
(***************************************************************************)
EXTENDS Integers, Sequences, FiniteSets, TLC

VARIABLES form, input_data, prediction, risk_factors, weights, age_note,
          elements, trace, edits

vars == <<form, input_data, prediction, risk_factors, weights, age_note,
          elements, trace, edits>>

locals == <<input_data, prediction, risk_factors, weights, age_note, elements>>

None == <<>>

Some(v) == <<v>>

\* ------------------------------------------------------------------------
\* Bounds of the model
\* ------------------------------------------------------------------------

\* widget changes the user makes in the bounded session (SpecVector)
MaxEdits == 2

\* ------------------------------------------------------------------------
\* Program constants
\* ------------------------------------------------------------------------
trestbps_default == 120

chol_default == 200

thalach_default == 150

\* value=1.0, in tenths
oldpeak_default == 10

age_limit == 50

trestbps_limit == 130

chol_limit == 240

\* oldpeak > 2, in tenths
oldpeak_limit == 20

\* ------------------------------------------------------------------------
\* Option lists of the select boxes
\* ------------------------------------------------------------------------
sex_options == <<"Select", "Female", "Male">>

cp_labels == <<"Typical Angina (chest pain on exertion)",
               "Atypical Angina (chest pain not related to exertion)",
               "Non-anginal Pain (not heart-related)",
               "Asymptomatic (no pain)">>

cp_options == <<"Select">> \o cp_labels

fbs_options == <<"<=120 mg/dl (Normal)", ">120 mg/dl (High)">>

family_history_options == <<"No", "Yes">>

restecg_options == <<"Normal ECG", "ST-T wave abnormality",
                     "Probable/definite left ventricular hypertrophy">>

exang_options == <<"Select", "No chest pain after exercise", "Chest pain after exercise">>

slope_labels == <<"Upsloping (gradual increase)", "Flat (no change)", "Downsloping (decreases)">>

slope_options == <<"Select">> \o slope_labels

ca_options == <<0, 1, 2, 3>>

thal_labels == <<"Normal blood flow", "Fixed defect", "Reversible defect">>

thal_options == <<"Select">> \o thal_labels

level_options == <<"Low", "Moderate", "High">>

Range(s) == {s[i] : i \in 1..Len(s)}

\* Python's list.index: the 0-based position of the first occurrence
index(s, x) == (CHOOSE i \in 1..Len(s) : s[i] = x /\ \A j \in 1..(i - 1) : s[j] # x) - 1

\* ------------------------------------------------------------------------
\* The values the script derives from the widgets on every run
\* ------------------------------------------------------------------------
age(f) == f.age

sex(f) == IF f.sex = "Select" THEN None
          ELSE Some(IF f.sex = "Female" THEN 0 ELSE 1)

cp(f) == IF f.cp = "Select" THEN None ELSE Some(index(cp_labels, f.cp))

fbs(f) == IF f.fbs = "<=120 mg/dl (Normal)" THEN 0 ELSE 1

family_history(f) == IF f.family_history = "Yes" THEN 1 ELSE 0

restecg(f) == index(restecg_options, f.restecg)

exang(f) == IF f.exang = "Select" THEN None
            ELSE Some(IF f.exang = "No chest pain after exercise" THEN 0 ELSE 1)

slope(f) == IF f.slope = "Select" THEN None ELSE Some(index(slope_labels, f.slope))

\* variant: the index without the + 1
thal_from_zero(f) ==
    IF f.thal = "Select" THEN None ELSE Some(index(thal_labels, f.thal))

thal(f) == IF f.thal = "Select" THEN None ELSE Some(index(thal_labels, f.thal) + 1)

\* the list of line 82
required(f) == <<age(f), sex(f), cp(f), exang(f), slope(f), thal(f)>>

\* variant: a truthiness test, not all([age, sex, cp, exang, slope, thal])
missing_falsy(f) ==
    \E i \in 1..Len(required(f)) : required(f)[i] = None \/ required(f)[i] = Some(0)

\* None in [age, sex, cp, exang, slope, thal]
missing(f) == \E i \in 1..Len(required(f)) : required(f)[i] = None

\* ------------------------------------------------------------------------
\* The state after construction: every widget at its default
\* ------------------------------------------------------------------------
defaults == [age |-> None, sex |-> "Select", cp |-> "Select",
             trestbps |-> trestbps_default, chol |-> chol_default,
             fbs |-> fbs_options[1], family_history |-> family_history_options[1],
             restecg |-> restecg_options[1], thalach |-> thalach_default,
             exang |-> "Select", oldpeak |-> oldpeak_default, slope |-> "Select",
             ca |-> ca_options[1], thal |-> "Select",
             smoking |-> FALSE, alcohol |-> FALSE,
             physical_activity |-> level_options[1], stress |-> level_options[1]]

NoOutput ==
    /\ input_data = <<>>
    /\ prediction = None
    /\ risk_factors = <<>>
    /\ weights = <<>>
    /\ age_note = ""
    /\ elements = <<>>
    /\ trace = <<>>

Init ==
    /\ form = defaults
    /\ NoOutput
    /\ edits = 0

\* ------------------------------------------------------------------------
\* Prediction (lines 85-94, 197-205)
\* ------------------------------------------------------------------------

\* the labels the opaque model may return: the two of a binary classifier
\* and one other value, which the banner's else-branch also covers
Labels == {0, 1, 2}

\* np.array([[age, sex, cp, trestbps, chol, fbs, restecg, thalach, exang,
\*            oldpeak, slope, ca, thal]]), built only when nothing is missing
feature_vector(f) ==
    <<age(f)[1], sex(f)[1], cp(f)[1], f.trestbps, f.chol, fbs(f),
      restecg(f), f.thalach, exang(f)[1], f.oldpeak, slope(f)[1], f.ca, thal(f)[1]>>

\* colors.green if prediction == 1 else colors.red
prediction_color(p) == IF p = 1 THEN "green" ELSE "red"

\* f"Prediction: {'Low Risk' if prediction==1 else 'High Risk'}"
prediction_line(p) == IF p = 1 THEN "Prediction: Low Risk" ELSE "Prediction: High Risk"

\* ------------------------------------------------------------------------
\* Detailed analysis (lines 100-118)
\* ------------------------------------------------------------------------
age_note_text == "Since age is a natural risk factor, regular screenings are recommended."

no_risk_text == "No major risk factors detected from inputs."

note(f) == IF age(f)[1] > age_limit THEN age_note_text ELSE ""

\* the ten if-statements of lines 104-113, in statement order
rules(f) ==
    << [fires |-> f.trestbps > trestbps_limit,
        text |-> "High blood pressure detected.", weight |-> 3],
       [fires |-> f.chol > chol_limit,
        text |-> "High cholesterol level.", weight |-> 3],
       [fires |-> fbs(f) = 1,
        text |-> "High fasting blood sugar (possible diabetes risk).", weight |-> 2],
       [fires |-> exang(f) = Some(1),
        text |-> "Exercise-induced chest pain is a warning sign.", weight |-> 2],
       [fires |-> f.oldpeak > oldpeak_limit,
        text |-> "Significant ST depression (possible ischemia).", weight |-> 4],
       [fires |-> family_history(f) = 1,
        text |-> "Family history of heart disease.", weight |-> 2],
       [fires |-> f.smoking,
        text |-> "Smoking increases risk.", weight |-> 2],
       [fires |-> f.alcohol,
        text |-> "Alcohol consumption can increase risk.", weight |-> 1],
       [fires |-> f.physical_activity = "Low",
        text |-> "Low physical activity is a risk factor.", weight |-> 2],
       [fires |-> f.stress = "High",
        text |-> "High stress levels may contribute to heart disease.", weight |-> 1] >>

\* variant: each firing statement inserts at the front of the lists
RECURSIVE evaluate_front(_, _)
evaluate_front(rs, n) ==
    IF n = 0 THEN [risk_factors |-> <<>>, weights |-> <<>>]
    ELSE LET before == evaluate_front(rs, n - 1)
         IN  IF rs[n].fires
             THEN [risk_factors |-> <<rs[n].text>> \o before.risk_factors,
                   weights |-> <<rs[n].weight>> \o before.weights]
             ELSE before

\* risk_factors and weights after the first n if-statements have run: each
\* firing statement appends its text to one list and its weight to the other
RECURSIVE evaluate(_, _)
evaluate(rs, n) ==
    IF n = 0 THEN [risk_factors |-> <<>>, weights |-> <<>>]
    ELSE LET before == evaluate(rs, n - 1)
         IN  IF rs[n].fires
             THEN [risk_factors |-> Append(before.risk_factors, rs[n].text),
                   weights |-> Append(before.weights, rs[n].weight)]
             ELSE before

analysis(f) == evaluate(rules(f), Len(rules(f)))

\* ------------------------------------------------------------------------
\* What the run shows and does, as steps (trace entries)
\* ------------------------------------------------------------------------
Ev(kind, text, nums, labels) ==
    [kind |-> kind, text |-> text, nums |-> nums, labels |-> labels]

Step(kind, text) == Ev(kind, text, <<>>, <<>>)

RECURSIVE sum(_)
sum(w) == IF w = <<>> THEN 0 ELSE w[1] + sum(Tail(w))

\* variant: the heuristic overrides a low-risk label once a rule fires
banner_reconciled(p) ==
    IF p = 1 /\ analysis(form).risk_factors = <<>>
    THEN Step("st.success", "Low Risk: You are unlikely to have heart disease.")
    ELSE Step("st.error", "High Risk: Patient likely has heart disease.")

\* lines 91-94
banner(p) ==
    IF p = 1
    THEN Step("st.success", "Low Risk: You are unlikely to have heart disease.")
    ELSE Step("st.error", "High Risk: Patient likely has heart disease.")

\* lines 115-118
RECURSIVE written(_)
written(rf) ==
    IF rf = <<>> THEN <<>> ELSE <<Step("st.write", rf[1])>> \o written(Tail(rf))

\* variant: the message depends on the list alone
risk_display_list_only(rf, an) ==
    IF Len(rf) = 0
    THEN <<Step("st.info", no_risk_text)>>
    ELSE written(rf) \o (IF an # "" THEN <<Step("st.info", an)>> ELSE <<>>)

risk_display(rf, an) ==
    IF Len(rf) = 0 /\ an = ""
    THEN <<Step("st.info", no_risk_text)>>
    ELSE written(rf) \o (IF an # "" THEN <<Step("st.info", an)>> ELSE <<>>)

\* lines 124-130
bar_chart(f) ==
    Ev("st.pyplot", "Patient Health Indicators",
       <<age(f)[1], f.trestbps, f.chol, f.thalach, f.oldpeak>>,
       <<"Age", "Resting BP", "Cholesterol", "Max HR", "ST Depression">>)

\* lines 132 and 282
pie_wanted(p, rf) == p = 0 /\ rf # <<>>

\* variant: "Other" is what the remaining factors weigh
pie_chart_remainder(rf, w) ==
    IF Len(rf) = 1
    THEN Ev("st.pyplot", "Risk Factor Severity Contribution",
            <<w[1], sum(w) - w[1]>>, <<rf[1], "Other">>)
    ELSE Ev("st.pyplot", "Risk Factor Severity Contribution", w, rf)

\* lines 133-139
pie_chart(rf, w) ==
    IF Len(rf) = 1
    THEN Ev("st.pyplot", "Risk Factor Severity Contribution",
            <<w[1], sum(w)>>, <<rf[1], "Other">>)
    ELSE Ev("st.pyplot", "Risk Factor Severity Contribution", w, rf)

\* variant: the download button sits outside the else-branch
rejected_with_download ==
    << Step("check", "None in [age, sex, cp, exang, slope, thal]"),
       Step("st.error", "Please fill in all fields before generating the report."),
       Ev("st.download_button", "heart_report.pdf", <<>>, <<"application/pdf">>) >>

\* lines 82-83 when a required value is None
rejected ==
    << Step("check", "None in [age, sex, cp, exang, slope, thal]"),
       Step("st.error", "Please fill in all fields before generating the report.") >>

\* ------------------------------------------------------------------------
\* The report (lines 167-300): the flowables appended to elements, in order
\* ------------------------------------------------------------------------
El(kind, text, style, rows) ==
    [kind |-> kind, text |-> text, style |-> style, rows |-> rows]

Paragraph(text, style) == El("Paragraph", text, style, <<>>)

Spacer == El("Spacer", "", "", <<>>)

HRFlowable == El("HRFlowable", "", "", <<>>)

Image(fig) == El("Image", fig, "", <<>>)

RECURSIVE bullets(_)
bullets(ts) ==
    IF ts = <<>> THEN <<>>
    ELSE <<Paragraph(ts[1], "normal_style")>> \o bullets(Tail(ts))

\* lines 189-209
report_head(p) ==
    << Paragraph("Heart Disease Prediction Report", "title_style"),
       Spacer, Spacer, Spacer,
       Paragraph("Date: today", "normal_style"),
       Spacer,
       Paragraph(prediction_line(p), prediction_color(p)),
       Spacer, HRFlowable, Spacer >>

\* lines 213-226: the rows of the patient details table
data(f) ==
    << <<"Attribute", "Value">>,
       <<"Age", age(f)[1]>>,
       <<"Sex", IF sex(f) = Some(1) THEN "Male" ELSE "Female">>,
       <<"Resting BP (mmHg)", f.trestbps>>,
       <<"Cholesterol (mg/dl)", f.chol>>,
       <<"Max Heart Rate", f.thalach>>,
       <<"Fasting Blood Sugar", IF fbs(f) = 1 THEN ">120 mg/dl" ELSE "<=120 mg/dl">>,
       <<"Family History", IF family_history(f) = 1 THEN "Yes" ELSE "No">>,
       <<"Smoking", IF f.smoking THEN "Yes" ELSE "No">>,
       <<"Alcohol", IF f.alcohol THEN "Yes" ELSE "No">>,
       <<"Physical Activity", f.physical_activity>>,
       <<"Stress Level", f.stress>> >>

\* lines 227-239
report_table(f) == << El("Table", "", "", data(f)), Spacer >>

\* lines 242-252
report_risks(rf, an) ==
    <<Paragraph("Risk Factors:", "risk_heading_style")>>
    \o (IF rf # <<>> THEN bullets(rf) ELSE <<Paragraph("None detected", "normal_style")>>)
    \o (IF an # "" THEN <<Paragraph(an, "normal_style")>> ELSE <<>>)
    \o <<Spacer, HRFlowable, Spacer>>

recs == << "Maintain a balanced diet low in saturated fats and cholesterol.",
           "Engage in regular physical activity.",
           "Monitor blood pressure, sugar, and cholesterol regularly.",
           "Avoid smoking and limit alcohol intake.",
           "Manage stress with mindfulness or relaxation exercises.",
           "Schedule regular health check-ups." >>

\* lines 255-265
report_recs ==
    <<Paragraph("Recommendations:", "rec_heading_style")>> \o bullets(recs) \o <<Spacer>>

\* lines 269-287
report_charts(p, rf) ==
    <<Image("fig")>> \o (IF pie_wanted(p, rf) THEN <<Image("fig2"), Spacer>> ELSE <<>>)

resources == << "World Health Organization (WHO)", "World Heart Federation",
                "Healthy Lifestyle Guide" >>

\* lines 291-298
report_resources ==
    <<Paragraph("Useful Resources:", "resource_heading_style")>> \o bullets(resources)

\* variant: the recommendations come before the risk factors
report_recs_first(f, p, rf, an) ==
    report_head(p) \o report_table(f) \o report_recs \o report_risks(rf, an)
    \o report_charts(p, rf) \o report_resources

report(f, p, rf, an) ==
    report_head(p) \o report_table(f) \o report_risks(rf, an) \o report_recs
    \o report_charts(p, rf) \o report_resources

\* line 303
download_button == Ev("st.download_button", "heart_report.pdf", <<>>, <<"application/pdf">>)

\* ------------------------------------------------------------------------
\* The steps of a run that passed the check of line 82 (lines 85-303)
\* ------------------------------------------------------------------------
\* variant: the download button is created before the report is built
steps_download_early(f, p, rf, w, an) ==
    << Step("check", "None in [age, sex, cp, exang, slope, thal]"),
       Ev("model.predict", "", feature_vector(f), <<>>),
       banner(p),
       Step("st.subheader", "Detailed Analysis"),
       Step("evaluate", "risk_factors, weights, age_note") >>
    \o risk_display(rf, an)
    \o << Step("st.subheader", "Visualization of Key Health Indicators"),
          bar_chart(f) >>
    \o (IF pie_wanted(p, rf) THEN <<pie_chart(rf, w)>> ELSE <<>>)
    \o << Step("st.subheader", "Recommendations"),
          Step("st.markdown", "Recommendations"),
          Step("st.subheader", "Useful Resources"),
          Step("st.markdown", "Useful Resources"),
          download_button,
          Step("fig.savefig", "fig") >>
    \o (IF pie_wanted(p, rf) THEN <<Step("fig2.savefig", "fig2")>> ELSE <<>>)
    \o << Step("doc.build", "elements") >>

steps(f, p, rf, w, an) ==
    << Step("check", "None in [age, sex, cp, exang, slope, thal]"),
       Ev("model.predict", "", feature_vector(f), <<>>),
       banner(p),
       Step("st.subheader", "Detailed Analysis"),
       Step("evaluate", "risk_factors, weights, age_note") >>
    \o risk_display(rf, an)
    \o << Step("st.subheader", "Visualization of Key Health Indicators"),
          bar_chart(f) >>
    \o (IF pie_wanted(p, rf) THEN <<pie_chart(rf, w)>> ELSE <<>>)
    \o << Step("st.subheader", "Recommendations"),
          Step("st.markdown", "Recommendations"),
          Step("st.subheader", "Useful Resources"),
          Step("st.markdown", "Useful Resources"),
          Step("fig.savefig", "fig") >>
    \o (IF pie_wanted(p, rf) THEN <<Step("fig2.savefig", "fig2")>> ELSE <<>>)
    \o << Step("doc.build", "elements"),
          download_button >>

\* ------------------------------------------------------------------------
\* Actions
\* ------------------------------------------------------------------------

\* The user changes one widget: the script reruns with the button not
\* pressed, so nothing below line 81 runs and the earlier output is gone.
WidgetChange(w, v) ==
    /\ form[w] # v
    /\ form' = [form EXCEPT ![w] = v]
    /\ input_data' = <<>>
    /\ prediction' = None
    /\ risk_factors' = <<>>
    /\ weights' = <<>>
    /\ age_note' = ""
    /\ elements' = <<>>
    /\ trace' = <<>>

\* The user presses "Generate Report": the script reruns with the button
\* pressed (lines 81-303); the model returns some label.
GenerateReport ==
    /\ UNCHANGED <<form, edits>>
    /\ IF missing(form)
       THEN /\ trace' = rejected
            /\ input_data' = <<>>
            /\ prediction' = None
            /\ risk_factors' = <<>>
            /\ weights' = <<>>
            /\ age_note' = ""
            /\ elements' = <<>>
       ELSE \E p \in Labels :
            LET a == analysis(form)
                an == note(form)
            IN  /\ input_data' = feature_vector(form)
                /\ prediction' = Some(p)
                /\ risk_factors' = a.risk_factors
                /\ weights' = a.weights
                /\ age_note' = an
                /\ elements' = report(form, p, a.risk_factors, an)
                /\ trace' = steps(form, p, a.risk_factors, a.weights, an)

\* ------------------------------------------------------------------------
\* What the user may enter
\* ------------------------------------------------------------------------
RequiredWidgets == {"age", "sex", "cp", "exang", "slope", "thal"}

RiskWidgets == {"age", "trestbps", "chol", "fbs", "exang", "oldpeak", "family_history",
                "smoking", "alcohol", "physical_activity", "stress"}

FeatureWidgets == {"age", "sex", "cp", "trestbps", "chol", "fbs", "restecg", "thalach",
                   "exang", "oldpeak", "slope", "ca", "thal"}

\* every option of a select box or checkbox; for a number input, unset (age
\* only), the default and the values on either side of a threshold
Choices(w) ==
    CASE w = "age" -> {None, Some(age_limit), Some(age_limit + 1)}
      [] w = "sex" -> Range(sex_options)
      [] w = "cp" -> Range(cp_options)
      [] w = "trestbps" -> {trestbps_default, trestbps_limit, trestbps_limit + 1}
      [] w = "chol" -> {chol_default, chol_limit, chol_limit + 1}
      [] w = "fbs" -> Range(fbs_options)
      [] w = "family_history" -> Range(family_history_options)
      [] w = "restecg" -> Range(restecg_options)
      [] w = "thalach" -> {thalach_default, thalach_default + 1}
      [] w = "exang" -> Range(exang_options)
      [] w = "oldpeak" -> {oldpeak_default, oldpeak_limit, oldpeak_limit + 1}
      [] w = "slope" -> Range(slope_options)
      [] w = "ca" -> Range(ca_options)
      [] w = "thal" -> Range(thal_options)
      [] w = "smoking" -> BOOLEAN
      [] w = "alcohol" -> BOOLEAN
      [] w = "physical_activity" -> Range(level_options)
      [] w = "stress" -> Range(level_options)

\* the choices that leave a required field set
SetChoices(w) ==
    IF w = "age" THEN Choices(w) \ {None}
    ELSE IF w \in RequiredWidgets THEN Choices(w) \ {"Select"}
    ELSE Choices(w)

\* a form whose required fields the user has filled in
filled == [defaults EXCEPT !.age = Some(age_limit), !.sex = "Female",
                           !.cp = cp_labels[1], !.exang = exang_options[2],
                           !.slope = slope_labels[1], !.thal = thal_labels[1]]

\* ------------------------------------------------------------------------
\* Specifications
\* ------------------------------------------------------------------------

\* from the fresh page, the user works on the six required fields
Next ==
    \/ \E w \in RequiredWidgets : \E v \in Choices(w) :
          WidgetChange(w, v) /\ UNCHANGED edits
    \/ GenerateReport

Spec == Init /\ [][Next]_vars

\* the required fields are filled in; the user works on the fields the
\* detailed analysis reads
InitFilled ==
    /\ form = filled
    /\ NoOutput
    /\ edits = 0

NextRisk ==
    \/ \E w \in RiskWidgets : \E v \in SetChoices(w) :
          WidgetChange(w, v) /\ UNCHANGED edits
    \/ GenerateReport

SpecRisk == InitFilled /\ [][NextRisk]_vars

\* the required fields are filled in; the user changes up to MaxEdits of
\* the thirteen fields of the feature vector, to any choice
NextVector ==
    \/ /\ edits < MaxEdits
       /\ \E w \in FeatureWidgets : \E v \in Choices(w) : WidgetChange(w, v)
       /\ edits' = edits + 1
    \/ GenerateReport

SpecVector == InitFilled /\ [][NextVector]_vars

\* ------------------------------------------------------------------------
\* Properties
\* ------------------------------------------------------------------------
Kinds == {trace[i].kind : i \in 1..Len(trace)}

\* the run of the last press showed the validation error
ErrorShown ==
    \E i \in 1..Len(trace) :
        /\ trace[i].kind = "st.error"
        /\ trace[i].text = "Please fill in all fields before generating the report."

\* a required widget is still as the page first showed it
SomeUnset ==
    \/ form.age = <<>>
    \/ form.sex = "Select"
    \/ form.cp = "Select"
    \/ form.exang = "Select"
    \/ form.slope = "Select"
    \/ form.thal = "Select"

\* C1: when "Generate Report" is pressed with a required field unset, the
\* run shows the validation error and does none of: the prediction call,
\* the risk-factor evaluation, a bar or pie chart, the report build, the
\* download offer.
C1_RejectedRunDoesNothingElse ==
    (trace # <<>> /\ SomeUnset) =>
        /\ ErrorShown
        /\ Kinds \cap {"model.predict", "evaluate", "st.pyplot", "fig.savefig",
                       "fig2.savefig", "doc.build", "st.download_button"} = {}
        /\ Len(trace) = 2
        /\ input_data = <<>>
        /\ prediction = <<>>
        /\ risk_factors = <<>>
        /\ weights = <<>>
        /\ age_note = ""
        /\ elements = <<>>

\* the button was pressed with thal alone left unset
C1_Witness ==
    /\ trace # <<>>
    /\ form.thal = "Select"
    /\ form.age # <<>>
    /\ form.sex # "Select"
    /\ form.cp # "Select"
    /\ form.exang # "Select"
    /\ form.slope # "Select"
    /\ ErrorShown

\* what C2 says each entry of the feature vector is, from the widgets
C2_Expected ==
    << form.age[1],
       CASE form.sex = "Female" -> 0 [] form.sex = "Male" -> 1,
       CASE form.cp = "Typical Angina (chest pain on exertion)" -> 0
         [] form.cp = "Atypical Angina (chest pain not related to exertion)" -> 1
         [] form.cp = "Non-anginal Pain (not heart-related)" -> 2
         [] form.cp = "Asymptomatic (no pain)" -> 3,
       form.trestbps,
       form.chol,
       CASE form.fbs = "<=120 mg/dl (Normal)" -> 0 [] form.fbs = ">120 mg/dl (High)" -> 1,
       CASE form.restecg = "Normal ECG" -> 0
         [] form.restecg = "ST-T wave abnormality" -> 1
         [] form.restecg = "Probable/definite left ventricular hypertrophy" -> 2,
       form.thalach,
       CASE form.exang = "No chest pain after exercise" -> 0
         [] form.exang = "Chest pain after exercise" -> 1,
       form.oldpeak,
       CASE form.slope = "Upsloping (gradual increase)" -> 0
         [] form.slope = "Flat (no change)" -> 1
         [] form.slope = "Downsloping (decreases)" -> 2,
       form.ca,
       CASE form.thal = "Normal blood flow" -> 1
         [] form.thal = "Fixed defect" -> 2
         [] form.thal = "Reversible defect" -> 3 >>

\* C2: when all six required fields are set, the vector passed to the model
\* is [age, sex, cp, resting_bp, cholesterol, fbs, resting_ecg,
\* max_heart_rate, exercise_angina, st_depression, slope, major_vessels,
\* thal] in that order, each select box as the 0-based index of its option
\* without the placeholder, thal as that index plus one, and nothing else.
C2_FeatureVector ==
    (trace # <<>> /\ ~SomeUnset) =>
        /\ Len(input_data) = 13
        /\ input_data = C2_Expected
        /\ input_data[13] \in {1, 2, 3}
        /\ \E i \in 1..Len(trace) :
              trace[i].kind = "model.predict" /\ trace[i].nums = C2_Expected

\* a vector with thal at its first option (1), sex and exang at 0, and the
\* last options of cp and restecg
C2_Witness ==
    /\ trace # <<>>
    /\ form.thal = "Normal blood flow"
    /\ form.cp = "Asymptomatic (no pain)"
    /\ form.restecg = "Probable/definite left ventricular hypertrophy"
    /\ input_data = <<50, 0, 3, 120, 200, 0, 2, 150, 0, 10, 0, 0, 1>>

\* C3: a record with all six required fields set is never rejected, also
\* when sex, cp, exang or slope encode to 0: the validation error is shown
\* if and only if a required field is unset.
C3_RejectedIffUnset ==
    trace # <<>> =>
        /\ ErrorShown <=> SomeUnset
        /\ ~SomeUnset <=> "st.download_button" \in Kinds

\* accepted with sex, cp, exang and slope all encoding to 0
C3_Witness ==
    /\ trace # <<>>
    /\ ~ErrorShown
    /\ form.sex = "Female"
    /\ form.cp = "Typical Angina (chest pain on exertion)"
    /\ form.exang = "No chest pain after exercise"
    /\ form.slope = "Upsloping (gradual increase)"
    /\ input_data[2] = 0 /\ input_data[3] = 0 /\ input_data[9] = 0 /\ input_data[11] = 0

\* the run of the last press got past the check of line 82
Accepted == trace # <<>> /\ ~SomeUnset

\* the rules as C4 lists them: text, weight and the condition on the inputs
C4_Rules ==
    << [text |-> "High blood pressure detected.", weight |-> 3,
        cond |-> form.trestbps > 130],
       [text |-> "High cholesterol level.", weight |-> 3,
        cond |-> form.chol > 240],
       [text |-> "High fasting blood sugar (possible diabetes risk).", weight |-> 2,
        cond |-> form.fbs = ">120 mg/dl (High)"],
       [text |-> "Exercise-induced chest pain is a warning sign.", weight |-> 2,
        cond |-> form.exang = "Chest pain after exercise"],
       [text |-> "Significant ST depression (possible ischemia).", weight |-> 4,
        cond |-> form.oldpeak > 20],
       [text |-> "Family history of heart disease.", weight |-> 2,
        cond |-> form.family_history = "Yes"],
       [text |-> "Smoking increases risk.", weight |-> 2,
        cond |-> form.smoking],
       [text |-> "Alcohol consumption can increase risk.", weight |-> 1,
        cond |-> form.alcohol],
       [text |-> "Low physical activity is a risk factor.", weight |-> 2,
        cond |-> form.physical_activity = "Low"],
       [text |-> "High stress levels may contribute to heart disease.", weight |-> 1,
        cond |-> form.stress = "High"] >>

\* the place of a text in the claim's rule order
C4_Rank(t) == CHOOSE k \in 1..Len(C4_Rules) : C4_Rules[k].text = t

\* C4: for every valid record the Risk Factor List holds exactly the rules
\* that fire, in the fixed rule order (never sorted), each paired by
\* position with its weight; a value equal to a threshold does not fire;
\* age > 50 sets only the Age Note.
C4_RiskFactorList ==
    Accepted =>
        /\ Len(weights) = Len(risk_factors)
        /\ \A k \in 1..Len(C4_Rules) :
              C4_Rules[k].cond <=> C4_Rules[k].text \in Range(risk_factors)
        /\ \A i \in 1..Len(risk_factors) :
              /\ \E k \in 1..Len(C4_Rules) : C4_Rules[k].text = risk_factors[i]
              /\ weights[i] = C4_Rules[C4_Rank(risk_factors[i])].weight
        /\ \A i, j \in 1..Len(risk_factors) :
              i < j => C4_Rank(risk_factors[i]) < C4_Rank(risk_factors[j])
        /\ age_note = (IF form.age[1] > 50 THEN age_note_text ELSE "")
        /\ age_note_text \notin Range(risk_factors)

\* blood pressure and ST depression at their thresholds, cholesterol and age
\* above: three rules of different weights fire, with the age note
C4_Witness ==
    /\ Accepted
    /\ form.trestbps = 130 /\ form.oldpeak = 20
    /\ form.chol = 241 /\ form.age = <<51>> /\ form.stress = "High"
    /\ risk_factors = << "High cholesterol level.",
                         "Low physical activity is a risk factor.",
                         "High stress levels may contribute to heart disease." >>
    /\ weights = <<3, 2, 1>>
    /\ age_note # ""

PieShown ==
    \E i \in 1..Len(trace) :
        trace[i].kind = "st.pyplot" /\ trace[i].text = "Risk Factor Severity Contribution"

HighRiskShown ==
    \E i \in 1..Len(trace) :
        /\ trace[i].kind = "st.error"
        /\ trace[i].text = "High Risk: Patient likely has heart disease."

LowRiskShown ==
    \E i \in 1..Len(trace) :
        /\ trace[i].kind = "st.success"
        /\ trace[i].text = "Low Risk: You are unlikely to have heart disease."

\* C5: after a successful action the pie chart appears if and only if the
\* label shown is "High Risk" (the label of every model output other than
\* 1) and the Risk Factor List is not empty.
C5_PieIffHighRiskAndFactors ==
    Accepted => (PieShown <=> (HighRiskShown /\ risk_factors # <<>>))

\* the places in the report of the flowables of one kind and text
Places(kind, text) ==
    {i \in 1..Len(elements) : elements[i].kind = kind /\ elements[i].text = text}

Place(kind, text) == CHOOSE i \in Places(kind, text) : TRUE

\* the paragraphs strictly between two places
ParagraphsBetween(a, b) ==
    Cardinality({i \in (a + 1)..(b - 1) : elements[i].kind = "Paragraph"})

\* the report of C6 with a patient table of n data rows
C6_Layout(n) ==
    LET title == Place("Paragraph", "Heart Disease Prediction Report")
        date == Place("Paragraph", "Date: today")
        line == CHOOSE i \in 1..Len(elements) :
                   elements[i].text \in {"Prediction: Low Risk", "Prediction: High Risk"}
        table == Place("Table", "")
        risks == Place("Paragraph", "Risk Factors:")
        recommendations == Place("Paragraph", "Recommendations:")
        bar == Place("Image", "fig")
        useful == Place("Paragraph", "Useful Resources:")
    IN  /\ \A h \in {"Heart Disease Prediction Report", "Date: today", "Risk Factors:",
                     "Recommendations:", "Useful Resources:"} :
              Cardinality(Places("Paragraph", h)) = 1
        /\ Cardinality(Places("Paragraph", "Prediction: Low Risk")
                       \cup Places("Paragraph", "Prediction: High Risk")) = 1
        /\ Cardinality(Places("Table", "")) = 1
        /\ Cardinality(Places("Image", "fig")) = 1
        /\ title = 1
        /\ title < date /\ date < line /\ line < table /\ table < risks
        /\ risks < recommendations /\ recommendations < bar /\ bar < useful
        /\ ParagraphsBetween(title, table) = 2
        /\ Len(elements[table].rows) = 1 + n
        /\ elements[table].rows[1] = <<"Attribute", "Value">>
        /\ ParagraphsBetween(risks, recommendations) =
              (IF risk_factors = <<>> THEN 1 ELSE Len(risk_factors))
              + (IF age_note = "" THEN 0 ELSE 1)
        /\ ParagraphsBetween(recommendations, bar) = 6
        /\ Places("Image", "fig2") # {} <=> PieShown
        /\ Places("Image", "fig2") \in {{}, {bar + 1}}
        /\ ParagraphsBetween(bar, useful) = 0
        /\ Len(elements) = useful + 3
        /\ \A i \in (useful + 1)..Len(elements) : elements[i].kind = "Paragraph"

\* C6 as stated: for any valid input the document contains, in this order:
\* title, date, prediction line, patient table with a header row plus 12
\* data rows, risk-factors section, recommendations with exactly 6 items,
\* bar chart image, the pie chart image only if Chart 2 was produced, and
\* resources with exactly 3 items.
C6_Original == Accepted => C6_Layout(12)

\* C6 as amended: the same document, the patient table having a header row
\* plus 11 data rows.
C6_ReportLayout == Accepted => C6_Layout(11)

\* a report with the pie chart image, two risk factors and the age note
C6_Witness ==
    /\ Accepted
    /\ Places("Image", "fig2") # {}
    /\ Len(risk_factors) = 2
    /\ age_note # ""
    /\ Len(elements[Place("Table", "")].rows) = 12

\* the texts the run wrote with st.write, in order
RECURSIVE Written(_)
Written(t) ==
    IF t = <<>> THEN <<>>
    ELSE (IF t[1].kind = "st.write" THEN <<t[1].text>> ELSE <<>>) \o Written(Tail(t))

Infos == {trace[i].text : i \in {j \in 1..Len(trace) : trace[j].kind = "st.info"}}

\* C7: after a successful action the "no major risk factors" message is
\* shown exactly when the Risk Factor List is empty and age <= 50; in every
\* other case each firing risk factor is shown in rule order, the Age Note
\* separately when present, and the message is not shown.
C7_NoRiskMessage ==
    Accepted =>
        /\ no_risk_text \in Infos <=> (risk_factors = <<>> /\ form.age[1] <= 50)
        /\ no_risk_text \in Infos => (Written(trace) = <<>> /\ Infos = {no_risk_text})
        /\ no_risk_text \notin Infos =>
              /\ Written(trace) = risk_factors
              /\ age_note_text \in Infos <=> form.age[1] > 50
              /\ \A i, j \in 1..Len(trace) :
                    (trace[i].kind = "st.write" /\ trace[j].kind = "st.info") => i < j

\* no rule fires but the patient is over 50: the age note alone is shown
C7_Witness ==
    /\ Accepted
    /\ risk_factors = <<>>
    /\ form.age = <<51>>
    /\ Infos = {age_note_text}

Pie == trace[CHOOSE i \in 1..Len(trace) :
                trace[i].kind = "st.pyplot"
                /\ trace[i].text = "Risk Factor Severity Contribution"]

\* C8: when exactly one risk factor fires and the pie chart is produced, it
\* has exactly two slices sized [that factor's weight, sum of all weights]
\* labelled [the factor's text, "Other"], so both slices are equal; with
\* two or more factors it has one slice per factor, sized by its weight, in
\* rule order.
C8_PieSlices ==
    (Accepted /\ PieShown) =>
        /\ Len(risk_factors) = 1 =>
              /\ Pie.nums = <<weights[1], sum(weights)>>
              /\ Pie.labels = <<risk_factors[1], "Other">>
              /\ Pie.nums[1] = Pie.nums[2]
        /\ Len(risk_factors) >= 2 =>
              /\ Pie.nums = weights
              /\ Pie.labels = risk_factors

\* the pie chart of the single factor "High blood pressure", weight 3
C8_Witness ==
    /\ Accepted
    /\ PieShown
    /\ risk_factors = <<"High blood pressure detected.">>
    /\ Pie.nums = <<3, 3>>

\* the steps of one kind in the last run
At(kind) == {i \in 1..Len(trace) : trace[i].kind = kind}

The(kind) == CHOOSE i \in At(kind) : TRUE

\* the steps that put something on the page
Rendered == At("st.success") \cup At("st.error") \cup At("st.subheader")
            \cup At("st.write") \cup At("st.info") \cup At("st.pyplot")
            \cup At("st.markdown")

\* the prediction banner and the "Detailed Analysis" heading
BannerAndHeading ==
    {i \in 1..Len(trace) :
        \/ trace[i].kind = "st.success"
        \/ trace[i].kind = "st.error"
        \/ trace[i] = Step("st.subheader", "Detailed Analysis")}

\* what C9 says of a successful run whichever way the banner falls: one
\* check, one prediction, one evaluation, one build, one download offer;
\* check, then prediction, then evaluation; the page output in its order;
\* then the build; the download offer last, under its fixed name and type
C9_Frame ==
    /\ \A k \in {"check", "model.predict", "evaluate", "doc.build", "st.download_button"} :
          Cardinality(At(k)) = 1
    /\ The("check") = 1
    /\ The("check") < The("model.predict")
    /\ The("model.predict") < The("evaluate")
    /\ \A i \in Rendered : The("model.predict") < i /\ i < The("doc.build")
    /\ Cardinality(BannerAndHeading) = 2
    /\ \A i \in BannerAndHeading : \A j \in Rendered \ BannerAndHeading : i < j
    /\ \A i \in At("st.write") \cup At("st.info") : \A j \in At("st.pyplot") : i < j
    /\ \A i \in At("st.pyplot") : \A j \in At("st.markdown") : i < j
    /\ Cardinality(At("st.markdown")) = 2
    /\ The("evaluate") < The("doc.build")
    /\ The("doc.build") < The("st.download_button")
    /\ The("st.download_button") = Len(trace)
    /\ trace[Len(trace)].text = "heart_report.pdf"
    /\ trace[Len(trace)].labels = <<"application/pdf">>

\* C9 as stated: every successful action validates, invokes the prediction,
\* computes the heuristic explanation, renders the display output
\* (prediction banner, risk-factor text and age note, bar chart, optional
\* pie chart, recommendations, resources), builds the report and then
\* offers the download, in that strict sequence; the download is offered
\* once, last, as "heart_report.pdf" of type "application/pdf".
C9_Original ==
    Accepted => (C9_Frame /\ \A i \in Rendered : The("evaluate") < i)

\* C9 as amended: the prediction banner and the "Detailed Analysis" heading
\* are rendered after the prediction and before the heuristic explanation
\* is computed; the rest of the display output follows the explanation;
\* everything else as stated.
C9_RunOrder ==
    Accepted =>
        /\ C9_Frame
        /\ \A i \in BannerAndHeading : i < The("evaluate")
        /\ \A i \in Rendered \ BannerAndHeading : The("evaluate") < i

\* a successful run with a low-risk label, which still ends in the download
C9_Witness ==
    /\ Accepted
    /\ prediction = <<1>>
    /\ LowRiskShown
    /\ trace[Len(trace)].kind = "st.download_button"
    /\ trace[Len(trace) - 1].kind = "doc.build"

\* the label the banner shows and the label of the report's prediction line
BannerLabel ==
    IF LowRiskShown /\ ~HighRiskShown THEN "Low Risk"
    ELSE IF HighRiskShown /\ ~LowRiskShown THEN "High Risk"
    ELSE "none"

ReportLabel ==
    IF Places("Paragraph", "Prediction: Low Risk") # {}
       /\ Places("Paragraph", "Prediction: High Risk") = {}
    THEN "Low Risk"
    ELSE IF Places("Paragraph", "Prediction: High Risk") # {}
            /\ Places("Paragraph", "Prediction: Low Risk") = {}
    THEN "High Risk"
    ELSE "none"

\* C10: the heuristic explanation and the prediction are independent.  Two
\* successful actions on the same record, whatever labels the model
\* returns, give the same Risk Factor List, weights and Age Note; and the
\* label of the banner and of the report's prediction line is decided by
\* the model's label alone (1 -> Low Risk, anything else -> High Risk),
\* whatever risk factors fired, banner and report agreeing.
C10_Independent ==
    /\ [][(Accepted /\ Accepted' /\ form' = form) =>
             /\ risk_factors' = risk_factors
             /\ weights' = weights
             /\ age_note' = age_note]_vars
    /\ [](Accepted =>
             /\ BannerLabel = (IF prediction = <<1>> THEN "Low Risk" ELSE "High Risk")
             /\ ReportLabel = BannerLabel)

\* the model says low risk while three heuristic risk factors fired
C10_Witness ==
    /\ Accepted
    /\ prediction = <<1>>
    /\ Len(risk_factors) = 3
    /\ BannerLabel = "Low Risk"
    /\ ReportLabel = "Low Risk"

====
